---- MODULE Spec2Model ----
(***************************************************************************)
(* Student Performance Predictor: the page shell (Index), the single       *)
(* student prediction view (PredictionForm), the bulk upload view          *)
(* (BulkUpload) and the cohort analytics view (Analytics).                 *)
(*                                                                         *)
(* Text values (the form fields, file names) are sequences of one          *)
(* character strings, so that parseFloat and the browser's constraint      *)
(* validation work on the text the operator typed.  A JavaScript number is *)
(* a record [nan, v]: v counts units of 1/Unit.  Every input the form      *)
(* accepts has at most one decimal digit, and on those inputs each         *)
(* product, sum and quotient of handleSubmit is a whole number of units,   *)
(* so the fixed point value is the exact real value of the expression the  *)
(* code evaluates in IEEE doubles (which differs from it by rounding in    *)
(* the last bits only).                                                    *)
(***************************************************************************)
EXTENDS Integers, Sequences, FiniteSets, TLC

VARIABLES
    activeTab,       \* Index: the active tab identifier
    overview,        \* mounted instances of the Overview body (SetupGuide)
    predictionForm,  \* mounted instances of PredictionForm: [loading, result, formData]
    bulkUpload,      \* mounted instances of BulkUpload: [file, uploading]
    analytics,       \* mounted instances of Analytics: its three datasets and cards
    predictTimers,   \* pending setTimeout callbacks of handleSubmit, oldest first
    uploadTimers,    \* pending setTimeout callbacks of handleUpload, oldest first
    toast,           \* notifications emitted by the latest step
    download,        \* files handed to the browser for download by the latest step
    invalid          \* fields the browser reported invalid at the latest step

vars == <<activeTab, overview, predictionForm, bulkUpload, analytics,
          predictTimers, uploadTimers, toast, download, invalid>>

\* Most callbacks of one kind that may be pending at once.
MaxTimers == 2

null == <<>>

Some(x) == <<x>>

----------------------------------------------------------------------------
(* JavaScript numbers *)

Unit == 10 ^ 4

NaN == [nan |-> TRUE, v |-> 0]

Num(v) == [nan |-> FALSE, v |-> v]

\* The numeric literal n/d, e.g. 0.3 is Lit(3, 10).
Lit(n, d) == Num((n * Unit) \div d)

\* The operands of an arithmetic operator are evaluated once, as values.
Add(x, y) ==
    CHOOSE r \in { IF a.nan \/ b.nan THEN NaN ELSE Num(a.v + b.v) : a \in {x}, b \in {y} } : TRUE

\* x * (n/d) and x / k
Mul(x, n, d) == CHOOSE r \in { IF a.nan THEN NaN ELSE Num((a.v * n) \div d) : a \in {x} } : TRUE

Div(x, k) == CHOOSE r \in { IF a.nan THEN NaN ELSE Num(a.v \div k) : a \in {x} } : TRUE

Gt(x, y) == \E a \in {x}, b \in {y} : ~a.nan /\ ~b.nan /\ a.v > b.v

MathMax(x, y) ==
    CHOOSE r \in { IF a.nan \/ b.nan THEN NaN ELSE IF a.v >= b.v THEN a ELSE b :
                     a \in {x}, b \in {y} } : TRUE

MathMin(x, y) ==
    CHOOSE r \in { IF a.nan \/ b.nan THEN NaN ELSE IF a.v <= b.v THEN a ELSE b :
                     a \in {x}, b \in {y} } : TRUE

Digits == <<"0", "1", "2", "3", "4", "5", "6", "7", "8", "9">>

IsDigit(c) == \E k \in 1..10 : Digits[k] = c

DigitVal(c) == (CHOOSE k \in 1..10 : Digits[k] = c) - 1

\* The index after the run of digits of s that starts at i.
RECURSIVE ScanDigits(_, _)
ScanDigits(s, i) ==
    IF i <= Len(s) /\ IsDigit(s[i]) THEN ScanDigits(s, i + 1) ELSE i

\* The value of the digits s[i..j-1] read as a whole number.
RECURSIVE WholeValue(_, _, _, _)
WholeValue(s, i, j, acc) ==
    IF i >= j THEN acc ELSE WholeValue(s, i + 1, j, acc * 10 + DigitVal(s[i]))

\* The value, in units, of the digits s[i..j-1] read as a fraction; w is the
\* weight of the digit at i.
RECURSIVE FractionValue(_, _, _, _)
FractionValue(s, i, j, w) ==
    IF i >= j \/ w = 0 THEN 0
    ELSE DigitVal(s[i]) * w + FractionValue(s, i + 1, j, w \div 10)

\* parseFloat: an optional sign, digits, an optional point and digits; NaN
\* when there is no digit to read.
parseFloat(s) ==
    LET neg   == Len(s) >= 1 /\ s[1] = "-"
        start == IF neg THEN 2 ELSE 1
        Read[wEnd \in 1..(Len(s) + 1)] ==
            LET point == wEnd <= Len(s) /\ s[wEnd] = "."
                fEnd  == IF point THEN ScanDigits(s, wEnd + 1) ELSE wEnd
                mag   == WholeValue(s, start, wEnd, 0) * Unit
                            + (IF point THEN FractionValue(s, wEnd + 1, fEnd, Unit \div 10) ELSE 0)
            IN  IF wEnd = start /\ (~point \/ fEnd = wEnd + 1)
                THEN NaN
                ELSE Num(IF neg THEN 0 - mag ELSE mag)
    IN  Read[ScanDigits(s, start)]

\* a || b on strings: the empty string is falsy.
OrElse(a, b) == IF a = <<>> THEN b ELSE a

----------------------------------------------------------------------------
(* PredictionForm *)

FieldNames ==
    {"studentId", "semester", "attendancePct", "internalMarksAvg",
     "culturalActivityScore", "classParticipationScore",
     "sportsActivityScore", "curricularActivityScore"}

\* useState initial value of formData: every field the empty string.
InitialFormData ==
    [studentId |-> <<>>, semester |-> <<>>, attendancePct |-> <<>>,
     internalMarksAvg |-> <<>>, culturalActivityScore |-> <<>>,
     classParticipationScore |-> <<>>, sportsActivityScore |-> <<>>,
     curricularActivityScore |-> <<>>]

InitialPredictionForm ==
    [loading |-> FALSE, result |-> null, formData |-> InitialFormData]

\* The attributes of the eight <Input> controls.  min, max are null when the
\* control declares none; step is the declared step, or the default 1.
TextInput == [type |-> "text", required |-> TRUE, min |-> null, max |-> null,
              step |-> Lit(1, 1)]

SemesterInput == [type |-> "number", required |-> TRUE, min |-> null, max |-> null,
                  step |-> Lit(1, 1)]

PercentInput == [type |-> "number", required |-> TRUE, min |-> Some(Lit(0, 1)),
                 max |-> Some(Lit(100, 1)), step |-> Lit(1, 10)]

ScoreInput == [type |-> "number", required |-> FALSE, min |-> Some(Lit(0, 1)),
               max |-> Some(Lit(10, 1)), step |-> Lit(1, 1)]

InputAttrs ==
    [studentId |-> TextInput, semester |-> SemesterInput,
     attendancePct |-> PercentInput, internalMarksAvg |-> PercentInput,
     culturalActivityScore |-> ScoreInput, classParticipationScore |-> ScoreInput,
     sportsActivityScore |-> ScoreInput, curricularActivityScore |-> ScoreInput]

\* Mutant: the required attribute is not honoured.
ValueMissingIgnored(a, value) == FALSE

\* The browser's constraint validation of one control: valueMissing, then for
\* a number control badInput, rangeUnderflow, rangeOverflow and stepMismatch
\* (the step base is min, or 0 without one).
ValueMissing(a, value) == a.required /\ value = <<>>

NumberValid(a, value) ==
    LET n    == parseFloat(value)
        base == IF a.min = null THEN 0 ELSE a.min[1].v
    IN  /\ ~n.nan
        /\ a.min # null => n.v >= a.min[1].v
        /\ a.max # null => n.v <= a.max[1].v
        /\ (n.v - base) % a.step.v = 0

FieldValid(name, value) ==
    LET a == InputAttrs[name]
    IN  /\ ~ValueMissing(a, value)
        /\ (value # <<>> /\ a.type = "number") => NumberValid(a, value)

InvalidFields(formData) == {name \in FieldNames : ~FieldValid(name, formData[name])}

\* form.checkValidity(): the submit event is dispatched only when it holds.
CheckValidity(formData) == InvalidFields(formData) = {}

\* Mutant: the mean of the scores that are present, not of four.
EngagementOfPresent(formData) ==
    LET scores  == <<formData.culturalActivityScore, formData.classParticipationScore,
                     formData.sportsActivityScore, formData.curricularActivityScore>>
        present == Cardinality({k \in 1..4 : scores[k] # <<>>})
    IN  Div(Add(Add(Add(parseFloat(OrElse(scores[1], <<"0">>)),
                        parseFloat(OrElse(scores[2], <<"0">>))),
                    parseFloat(OrElse(scores[3], <<"0">>))),
                parseFloat(OrElse(scores[4], <<"0">>))),
            IF present = 0 THEN 4 ELSE present)

\* The body of the setTimeout callback of handleSubmit, up to setResult.
Engagement(formData) ==
    Div(Add(Add(Add(parseFloat(OrElse(formData.culturalActivityScore, <<"0">>)),
                    parseFloat(OrElse(formData.classParticipationScore, <<"0">>))),
                parseFloat(OrElse(formData.sportsActivityScore, <<"0">>))),
            parseFloat(OrElse(formData.curricularActivityScore, <<"0">>))),
        4)

Score(attendance, internalMarks, engagement) ==
    Add(Add(Mul(attendance, 3, 10), Mul(internalMarks, 5, 10)), Mul(engagement, 2, 1))

\* Mutant: the raw probability, not clamped.
ProbabilityUnclamped(score) == Div(score, 100)

Probability(score) == MathMin(MathMax(Div(score, 100), Lit(1, 10)), Lit(95, 100))

\* Mutant: "Pass" from 0.5 up.
PredictionAtLeastHalf(probability) ==
    IF ~probability.nan /\ probability.v >= Lit(5, 10).v THEN "Pass" ELSE "Fail"

Prediction(probability) == IF Gt(probability, Lit(5, 10)) THEN "Pass" ELSE "Fail"

\* Mutant: the labels follow the probability, not the risk.
RiskLevelInverted(probability) ==
    IF Gt(probability, Lit(7, 10)) THEN "high"
    ELSE IF Gt(probability, Lit(4, 10)) THEN "medium" ELSE "low"

\* Mutant: the two thresholds inclusive.
RiskLevelInclusive(probability) ==
    IF ~probability.nan /\ probability.v >= Lit(7, 10).v THEN "low"
    ELSE IF ~probability.nan /\ probability.v >= Lit(4, 10).v THEN "medium" ELSE "high"

RiskLevel(probability) ==
    IF Gt(probability, Lit(7, 10)) THEN "low"
    ELSE IF Gt(probability, Lit(4, 10)) THEN "medium" ELSE "high"

\* Mutant: the three factors ranked by impact, largest first.
TopFactorsByImpact(attendance, internalMarks, engagement) ==
    LET f == << [feature |-> "Internal Marks", impact |-> internalMarks],
                [feature |-> "Attendance", impact |-> attendance],
                [feature |-> "Engagement Index", impact |-> Mul(engagement, 10, 1)] >>
        p == CHOOSE q \in Permutations({1, 2, 3}) :
                \A x, y \in 1..3 :
                    x < y => \/ f[q[x]].impact.v > f[q[y]].impact.v
                             \/ f[q[x]].impact.v = f[q[y]].impact.v /\ q[x] < q[y]
    IN  [k \in 1..3 |-> f[p[k]]]

TopFactors(attendance, internalMarks, engagement) ==
    << [feature |-> "Internal Marks", impact |-> internalMarks],
       [feature |-> "Attendance", impact |-> attendance],
       [feature |-> "Engagement Index", impact |-> Mul(engagement, 10, 1)] >>

\* The constants of the callback, each computed once from the captured form.
PredictionResult(formData) ==
    CHOOSE r \in UNION {
        { [prediction  |-> Prediction(probability),
           probability |-> probability,
           topFactors  |-> TopFactors(attendance, internalMarks, engagement),
           riskLevel   |-> RiskLevel(probability)] :
          probability \in {Probability(Score(attendance, internalMarks, engagement))} } :
        attendance    \in {parseFloat(formData.attendancePct)},
        internalMarks \in {parseFloat(formData.internalMarksAvg)},
        engagement    \in {Engagement(formData)} } : TRUE

PredictDelay == 1500

Success(message) == [type |-> "success", message |-> message]

Error(message) == [type |-> "error", message |-> message]

NoOutput == toast' = <<>> /\ download' = <<>> /\ invalid' = {}

\* handleSubmit: setLoading(true) and a timer whose callback closes over the
\* formData of the render that handled the event.
handleSubmit ==
    /\ predictionForm # <<>>
    /\ Len(predictTimers) < MaxTimers
    /\ predictionForm' = <<[predictionForm[1] EXCEPT !.loading = TRUE]>>
    /\ predictTimers' = Append(predictTimers,
            [alive |-> TRUE, delay |-> PredictDelay,
             formData |-> predictionForm[1].formData])
    /\ NoOutput
    /\ UNCHANGED <<activeTab, overview, bulkUpload, analytics, uploadTimers>>

\* The submit button is disabled while loading.
SubmitDisabled == predictionForm[1].loading

\* A submit attempt the browser lets through: the form is valid.
SubmitAccepted ==
    /\ predictionForm # <<>>
    /\ ~SubmitDisabled
    /\ CheckValidity(predictionForm[1].formData)
    /\ handleSubmit

\* A submit attempt the browser rejects: it reports the invalid controls and
\* dispatches no submit event.
SubmitRejected ==
    /\ predictionForm # <<>>
    /\ ~SubmitDisabled
    /\ ~CheckValidity(predictionForm[1].formData)
    /\ invalid' = InvalidFields(predictionForm[1].formData)
    /\ toast' = <<>> /\ download' = <<>>
    /\ UNCHANGED <<activeTab, overview, predictionForm, bulkUpload, analytics,
                   predictTimers, uploadTimers>>

\* Mutant: the callback stores the result and never calls setLoading(false).
PredictTimerFireKeepsLoading ==
    /\ predictTimers # <<>>
    /\ predictTimers' = Tail(predictTimers)
    /\ LET t == Head(predictTimers)
           r == PredictionResult(t.formData)
       IN  /\ predictionForm' =
                 IF t.alive
                 THEN <<[predictionForm[1] EXCEPT !.result = Some(r)]>>
                 ELSE predictionForm
           /\ toast' = <<Success(<<"Prediction completed successfully!">>)>>
    /\ download' = <<>> /\ invalid' = {}
    /\ UNCHANGED <<activeTab, overview, bulkUpload, analytics, uploadTimers>>

\* Mutant: the callback reaches whichever instance is mounted when it runs.
PredictTimerFireAnyInstance ==
    /\ predictTimers # <<>>
    /\ predictTimers' = Tail(predictTimers)
    /\ LET t == Head(predictTimers)
           r == PredictionResult(t.formData)
       IN  /\ predictionForm' =
                 IF predictionForm # <<>>
                 THEN <<[predictionForm[1] EXCEPT !.result = Some(r), !.loading = FALSE]>>
                 ELSE predictionForm
           /\ toast' = <<Success(<<"Prediction completed successfully!">>)>>
    /\ download' = <<>> /\ invalid' = {}
    /\ UNCHANGED <<activeTab, overview, bulkUpload, analytics, uploadTimers>>

\* Mutant: the callback reads the fields as they are when it runs.
PredictTimerFireReadsCurrent ==
    /\ predictTimers # <<>>
    /\ predictTimers' = Tail(predictTimers)
    /\ LET t == Head(predictTimers)
           r == PredictionResult(predictionForm[1].formData)
       IN  /\ predictionForm' =
                 IF t.alive
                 THEN <<[predictionForm[1] EXCEPT !.result = Some(r), !.loading = FALSE]>>
                 ELSE predictionForm
           /\ toast' = <<Success(<<"Prediction completed successfully!">>)>>
    /\ download' = <<>> /\ invalid' = {}
    /\ UNCHANGED <<activeTab, overview, bulkUpload, analytics, uploadTimers>>

\* The timer of the oldest pending submission fires.  The state setters of an
\* instance that has been unmounted change nothing; the notification is global.
PredictTimerFire ==
    /\ predictTimers # <<>>
    /\ predictTimers' = Tail(predictTimers)
    /\ LET t == Head(predictTimers)
           r == PredictionResult(t.formData)
       IN  /\ predictionForm' =
                 IF t.alive
                 THEN <<[predictionForm[1] EXCEPT !.result = Some(r), !.loading = FALSE]>>
                 ELSE predictionForm
           /\ toast' = <<Success(<<"Prediction completed successfully!">>)>>
    /\ download' = <<>> /\ invalid' = {}
    /\ UNCHANGED <<activeTab, overview, bulkUpload, analytics, uploadTimers>>

\* handleInputChange: the named field takes the control's new value.
handleInputChange(name, value) ==
    /\ predictionForm # <<>>
    /\ predictionForm' =
          <<[predictionForm[1] EXCEPT !.formData = [@ EXCEPT ![name] = value]]>>
    /\ NoOutput
    /\ UNCHANGED <<activeTab, overview, bulkUpload, analytics, predictTimers, uploadTimers>>

----------------------------------------------------------------------------
(* BulkUpload *)

InitialBulkUpload == [file |-> null, uploading |-> FALSE]

UploadDelay == 2000

\* handleFileChange: files is e.target.files; an empty list changes nothing.
handleFileChange(files) ==
    /\ bulkUpload # <<>>
    /\ IF files # <<>>
       THEN /\ bulkUpload' = <<[bulkUpload[1] EXCEPT !.file = Some(files[1])]>>
            /\ toast' = <<Success(<<"File selected: ", files[1].name>>)>>
       ELSE /\ bulkUpload' = bulkUpload
            /\ toast' = <<>>
    /\ download' = <<>> /\ invalid' = {}
    /\ UNCHANGED <<activeTab, overview, predictionForm, analytics,
                   predictTimers, uploadTimers>>

\* Mutant: the guard reports the error and falls through to setUploading(true).
handleUploadNoReturn ==
    /\ bulkUpload # <<>>
    /\ IF bulkUpload[1].file = null
       THEN /\ toast' = <<Error(<<"Please select a file first">>)>>
            /\ bulkUpload' = <<[bulkUpload[1] EXCEPT !.uploading = TRUE]>>
            /\ UNCHANGED uploadTimers
       ELSE /\ Len(uploadTimers) < MaxTimers
            /\ bulkUpload' = <<[bulkUpload[1] EXCEPT !.uploading = TRUE]>>
            /\ uploadTimers' = Append(uploadTimers,
                    [alive |-> TRUE, delay |-> UploadDelay,
                     file |-> bulkUpload[1].file[1]])
            /\ toast' = <<>>
    /\ download' = <<>> /\ invalid' = {}
    /\ UNCHANGED <<activeTab, overview, predictionForm, analytics, predictTimers>>

\* handleUpload: without a file an error notification and nothing else;
\* otherwise setUploading(true) and a timer whose callback closes over the
\* file of the render that handled the click.
handleUpload ==
    /\ bulkUpload # <<>>
    /\ IF bulkUpload[1].file = null
       THEN /\ toast' = <<Error(<<"Please select a file first">>)>>
            /\ UNCHANGED <<bulkUpload, uploadTimers>>
       ELSE /\ Len(uploadTimers) < MaxTimers
            /\ bulkUpload' = <<[bulkUpload[1] EXCEPT !.uploading = TRUE]>>
            /\ uploadTimers' = Append(uploadTimers,
                    [alive |-> TRUE, delay |-> UploadDelay,
                     file |-> bulkUpload[1].file[1]])
            /\ toast' = <<>>
    /\ download' = <<>> /\ invalid' = {}
    /\ UNCHANGED <<activeTab, overview, predictionForm, analytics, predictTimers>>

\* Mutant: the button stays enabled while an upload is in progress.
UploadDisabledWhileIdle == bulkUpload[1].file = null

\* disabled={!file || uploading} of the Upload & Predict button.
UploadDisabled == bulkUpload[1].file = null \/ bulkUpload[1].uploading

\* A click on the enabled Upload & Predict button.
UploadClick ==
    /\ bulkUpload # <<>>
    /\ ~UploadDisabled
    /\ handleUpload

\* handleUpload invoked although no file is selected (the button is disabled
\* then, so not by a click on it): the case its own guard answers.
UploadWithoutFile ==
    /\ bulkUpload # <<>>
    /\ bulkUpload[1].file = null
    /\ handleUpload

\* Mutant: the notification names the file selected when the timer fires.
UploadTimerFireNamesSelection ==
    /\ uploadTimers # <<>>
    /\ LET t == Head(uploadTimers)
           f == IF t.alive THEN bulkUpload[1].file[1] ELSE t.file
       IN  /\ toast' = <<Success(<<"Successfully processed ", f.name>>)>>
           /\ bulkUpload' =
                 IF t.alive
                 THEN <<[bulkUpload[1] EXCEPT !.uploading = FALSE, !.file = null]>>
                 ELSE bulkUpload
    /\ uploadTimers' = Tail(uploadTimers)
    /\ download' = <<>> /\ invalid' = {}
    /\ UNCHANGED <<activeTab, overview, predictionForm, analytics, predictTimers>>

\* Mutant: the completion leaves the selection in place.
UploadTimerFireKeepsFile ==
    /\ uploadTimers # <<>>
    /\ LET t == Head(uploadTimers)
       IN  /\ toast' = <<Success(<<"Successfully processed ", t.file.name>>)>>
           /\ bulkUpload' =
                 IF t.alive
                 THEN <<[bulkUpload[1] EXCEPT !.uploading = FALSE]>>
                 ELSE bulkUpload
    /\ uploadTimers' = Tail(uploadTimers)
    /\ download' = <<>> /\ invalid' = {}
    /\ UNCHANGED <<activeTab, overview, predictionForm, analytics, predictTimers>>

\* The timer of the oldest pending upload fires.
UploadTimerFire ==
    /\ uploadTimers # <<>>
    /\ LET t == Head(uploadTimers)
       IN  /\ toast' = <<Success(<<"Successfully processed ", t.file.name>>)>>
           /\ bulkUpload' =
                 IF t.alive
                 THEN <<[bulkUpload[1] EXCEPT !.uploading = FALSE, !.file = null]>>
                 ELSE bulkUpload
    /\ uploadTimers' = Tail(uploadTimers)
    /\ download' = <<>> /\ invalid' = {}
    /\ UNCHANGED <<activeTab, overview, predictionForm, analytics, predictTimers>>

\* The template literal of downloadTemplate, one row per line.
csvContent ==
    << "student_id,semester,attendance_pct,internal_marks_avg,cultural_activity_score,class_participation_score,sports_activity_score,curricular_activity_score",
       "1DA23IS001,5,87.5,72,7,8,5,9",
       "1DA23IS002,5,62.0,48,3,4,6,2",
       "1DA23IS003,6,91.2,85,9,9,7,10" >>

\* Mutant: the download is named after the selected file when there is one.
TemplateFileNamedAfterSelection(view) ==
    [download |-> IF view.file = null THEN "student_data_template.csv"
                  ELSE view.file[1].name,
     type |-> "text/csv",
     content |-> csvContent]

\* The file downloadTemplate hands to the browser: the Blob and the anchor.
TemplateFile(view) ==
    [download |-> "student_data_template.csv", type |-> "text/csv",
     content |-> csvContent]

downloadTemplate ==
    /\ bulkUpload # <<>>
    /\ download' = <<TemplateFile(bulkUpload[1])>>
    /\ toast' = <<Success(<<"Template downloaded successfully!">>)>>
    /\ invalid' = {}
    /\ UNCHANGED <<activeTab, overview, predictionForm, bulkUpload, analytics,
                   predictTimers, uploadTimers>>

----------------------------------------------------------------------------
(* Analytics *)

\* Mutant: the Medium Risk count with its digits transposed.
riskDistributionTransposed ==
    << [name |-> "Low Risk", value |-> 120, color |-> "hsl(var(--accent))"],
       [name |-> "Medium Risk", value |-> 54, color |-> "hsl(var(--chart-4))"],
       [name |-> "High Risk", value |-> 18, color |-> "hsl(var(--destructive))"] >>

riskDistribution ==
    << [name |-> "Low Risk", value |-> 120, color |-> "hsl(var(--accent))"],
       [name |-> "Medium Risk", value |-> 45, color |-> "hsl(var(--chart-4))"],
       [name |-> "High Risk", value |-> 18, color |-> "hsl(var(--destructive))"] >>

attendanceVsPerformance ==
    << [attendance |-> "0-60%", pass |-> 15, fail |-> 35],
       [attendance |-> "60-80%", pass |-> 45, fail |-> 15],
       [attendance |-> "80-100%", pass |-> 95, fail |-> 5] >>

featureImportance ==
    << [feature |-> "Internal Marks", importance |-> 92],
       [feature |-> "Attendance", importance |-> 85],
       [feature |-> "Class Participation", importance |-> 67],
       [feature |-> "Engagement Index", importance |-> 58],
       [feature |-> "Cultural Activities", importance |-> 42],
       [feature |-> "Sports Activities", importance |-> 38] >>

\* The three summary cards, as rendered.
SummaryCards ==
    [totalStudentsAnalyzed |-> 183, modelAccuracy |-> "87.4%", highRiskStudents |-> 18]

InitialAnalytics ==
    [riskDistribution |-> riskDistribution,
     attendanceVsPerformance |-> attendanceVsPerformance,
     featureImportance |-> featureImportance,
     cards |-> SummaryCards]

----------------------------------------------------------------------------
(* Index *)

Tabs == {"overview", "predict", "bulk", "analytics"}

InitialOverview == [setupGuide |-> TRUE]

\* Mutant: every tab body stays mounted (forceMount), hidden while inactive.
TabsContentForceMount(value, active) == TRUE

\* <TabsContent value=...>: its children are mounted while it is the active tab.
TabsContent(value, active) == value = active

\* Mutant: a tab body once mounted stays mounted when its tab is left.
RenderKeepAlive(instances, present, initial) ==
    IF instances # <<>> THEN instances
    ELSE IF present THEN <<initial>> ELSE <<>>

\* Rendering a tab body: an instance that stays mounted keeps its state, one
\* that appears starts from its initial state, one that disappears is dropped.
Render(instances, present, initial) ==
    IF ~present THEN <<>>
    ELSE IF instances = <<>> THEN <<initial>> ELSE instances

\* The callbacks of an unmounted instance stay pending and no longer reach
\* any mounted instance.
Orphan(timers) == [k \in 1..Len(timers) |-> [timers[k] EXCEPT !.alive = FALSE]]

\* onValueChange={setActiveTab} and the render that follows.
setActiveTab(tab) ==
    /\ activeTab' = tab
    /\ overview' = Render(overview, TabsContent("overview", tab), InitialOverview)
    /\ predictionForm' =
          Render(predictionForm, TabsContent("predict", tab), InitialPredictionForm)
    /\ bulkUpload' = Render(bulkUpload, TabsContent("bulk", tab), InitialBulkUpload)
    /\ analytics' = Render(analytics, TabsContent("analytics", tab), InitialAnalytics)
    /\ predictTimers' =
          IF predictionForm' = <<>> THEN Orphan(predictTimers) ELSE predictTimers
    /\ uploadTimers' = IF bulkUpload' = <<>> THEN Orphan(uploadTimers) ELSE uploadTimers
    /\ NoOutput

----------------------------------------------------------------------------
(* The operator's inputs *)

StudentIds == { <<>>, <<"1", "D", "A", "2", "3", "I", "S", "0", "0", "1">> }

\* What the operator types into each control.
Typed ==
    [studentId |-> StudentIds,
     semester |-> { <<>>, <<"5">> },
     attendancePct |-> { <<>>, <<"6", "2", ".", "0">>, <<"1", "5", "0">> },
     internalMarksAvg |-> { <<>>, <<"4", "8">> },
     culturalActivityScore |-> { <<>>, <<"3">> },
     classParticipationScore |-> { <<>> },
     sportsActivityScore |-> { <<>> },
     curricularActivityScore |-> { <<>> }]

Files == { [name |-> "students.csv"], [name |-> "marks.csv"] }

\* What the file picker reports: nothing chosen, or one file.
FileLists == { <<>> } \cup { <<f>> : f \in Files }

----------------------------------------------------------------------------
(* The application *)

Init ==
    /\ activeTab = "overview"
    /\ overview = <<InitialOverview>>
    /\ predictionForm = <<>>
    /\ bulkUpload = <<>>
    /\ analytics = <<>>
    /\ predictTimers = <<>>
    /\ uploadTimers = <<>>
    /\ toast = <<>>
    /\ download = <<>>
    /\ invalid = {}

Next ==
    \/ \E tab \in Tabs : setActiveTab(tab)
    \/ \E name \in FieldNames : \E value \in Typed[name] : handleInputChange(name, value)
    \/ SubmitAccepted
    \/ SubmitRejected
    \/ PredictTimerFire
    \/ \E files \in FileLists : handleFileChange(files)
    \/ UploadClick
    \/ UploadWithoutFile
    \/ UploadTimerFire
    \/ downloadTemplate

Spec == Init /\ [][Next]_vars

\* The browser's event loop runs every timer callback that is due: a pending
\* timer does not stay pending for ever.
Fairness == WF_vars(PredictTimerFire) /\ WF_vars(UploadTimerFire)

LiveSpec == Spec /\ Fairness

----------------------------------------------------------------------------
(* The scoring pass over a grid of form contents *)

\* The numeral the operator types for a whole number n >= 0.
RECURSIVE Numeral(_)
Numeral(n) ==
    IF n < 10 THEN <<Digits[n + 1]>>
    ELSE Append(Numeral(n \div 10), Digits[(n % 10) + 1])

\* The text typed for t tenths: "72" for 720, "87.5" for 875.
Decimal(t) ==
    IF t % 10 = 0 THEN Numeral(t \div 10)
    ELSE Numeral(t \div 10) \o <<".", Digits[(t % 10) + 1]>>

\* Contents of a percentage control, each with the tenths it denotes.
AttendancePoints ==
    { [text |-> Decimal(t), tenths |-> t] :
        t \in {0, 200, 400, 600, 800, 1000, 1, 875, 912, 999, 1500} }
    \cup { [text |-> <<"6", "2", ".", "0">>, tenths |-> 620],
           [text |-> <<"-", "5">>, tenths |-> 0 - 50],
           [text |-> <<>>, tenths |-> 0] }

InternalPoints ==
    { [text |-> Decimal(t), tenths |-> t] :
        t \in {0, 200, 400, 600, 800, 1000, 480, 720, 850, 1001} }
    \cup { [text |-> <<>>, tenths |-> 0] }

\* Contents of an activity score control, each with the score it counts as
\* (an absent score counts as 0).
ScorePoints ==
    { [text |-> Numeral(n), score |-> n] : n \in 0..11 }
    \cup { [text |-> <<>>, score |-> 0] }

GridScores == { p \in ScorePoints : p.score \in {0, 5, 10} }

ScoreExamples ==
    { <<7, 8, 5, 9>>, <<3, 4, 6, 2>>, <<9, 9, 7, 10>>, <<11, 0, 0, 0>>, <<1, 0, 0, 0>> }

\* The four activity score controls' contents.
ScoreTuples ==
    (GridScores \X GridScores \X GridScores \X GridScores)
    \cup { [k \in 1..4 |-> [text |-> Numeral(e[k]), score |-> e[k]]] : e \in ScoreExamples }

GridFormData(a, i, sc) ==
    [studentId |-> <<"1", "D", "A", "2", "3", "I", "S", "0", "0", "1">>,
     semester |-> <<"5">>,
     attendancePct |-> a.text,
     internalMarksAvg |-> i.text,
     culturalActivityScore |-> sc[1].text,
     classParticipationScore |-> sc[2].text,
     sportsActivityScore |-> sc[3].text,
     curricularActivityScore |-> sc[4].text]

InitScore ==
    /\ activeTab = "predict"
    /\ overview = <<>>
    /\ \E a \in AttendancePoints, i \in InternalPoints, sc \in ScoreTuples :
          predictionForm = <<[loading |-> FALSE, result |-> null,
                              formData |-> GridFormData(a, i, sc)]>>
    /\ bulkUpload = <<>>
    /\ analytics = <<>>
    /\ predictTimers = <<>>
    /\ uploadTimers = <<>>
    /\ toast = <<>>
    /\ download = <<>>
    /\ invalid = {}

NextScore ==
    \/ SubmitAccepted
    \/ SubmitRejected
    \/ PredictTimerFire

SpecScore == InitScore /\ [][NextScore]_vars

----------------------------------------------------------------------------
(* Properties of the scoring pass (checked under SpecScore) *)

\* A PredictionResult is stored in the mounted prediction view.
Stored == predictionForm # <<>> /\ predictionForm[1].result # null

StoredResult == predictionForm[1].result[1]

FormData == predictionForm[1].formData

\* What the form contents denote, read off the grid: attendance and internal
\* marks in tenths, the sum of the four activity scores.
TenthsOf(points, text) == (CHOOSE p \in points : p.text = text).tenths

ScoreOf(text) == (CHOOSE p \in ScorePoints : p.text = text).score

AttendanceTenths == TenthsOf(AttendancePoints, FormData.attendancePct)

InternalTenths == TenthsOf(InternalPoints, FormData.internalMarksAvg)

ScoreSum ==
    ScoreOf(FormData.culturalActivityScore) + ScoreOf(FormData.classParticipationScore)
        + ScoreOf(FormData.sportsActivityScore) + ScoreOf(FormData.curricularActivityScore)

\* The reference heuristic in ten-thousandths: with a, i in tenths and s the sum
\* of the four scores, 100 * (0.30 a/10 + 0.50 i/10 + 2.0 s/4) = 3a + 5i + 50s,
\* and probability = clamp(score / 100, 0.10, 0.95).
RefProbability ==
    LET raw == 3 * AttendanceTenths + 5 * InternalTenths + 50 * ScoreSum
    IN  IF raw < 1000 THEN 1000 ELSE IF raw > 9500 THEN 9500 ELSE raw

RefPrediction == IF RefProbability > 5000 THEN "Pass" ELSE "Fail"

RefRiskLevel ==
    IF RefProbability > 7000 THEN "low"
    ELSE IF RefProbability > 4000 THEN "medium" ELSE "high"

\* The form holds attendance a and internal marks i (in tenths) and the four
\* activity scores sc.
Holds(a, i, sc) ==
    /\ parseFloat(FormData.attendancePct) = Num(a * 1000)
    /\ parseFloat(FormData.internalMarksAvg) = Num(i * 1000)
    /\ FormData.culturalActivityScore = Numeral(sc[1])
    /\ FormData.classParticipationScore = Numeral(sc[2])
    /\ FormData.sportsActivityScore = Numeral(sc[3])
    /\ FormData.curricularActivityScore = Numeral(sc[4])

Gives(probability, prediction, riskLevel) ==
    /\ StoredResult.probability = [nan |-> FALSE, v |-> probability]
    /\ StoredResult.prediction = prediction
    /\ StoredResult.riskLevel = riskLevel

\* C1: every stored PredictionResult has a probability that is a number in
\* the closed interval [0.10, 0.95] (1000 to 9500 ten-thousandths).
C1_ProbabilityClamped ==
    Stored => /\ ~StoredResult.probability.nan
              /\ StoredResult.probability.v >= 1000
              /\ StoredResult.probability.v <= 9500

\* C1 witness: a result stored for attendance 0, internal marks 0 and no
\* engagement, whose raw probability 0 was clamped up to 0.10.
C1_Witness ==
    /\ Stored
    /\ AttendanceTenths = 0 /\ InternalTenths = 0 /\ ScoreSum = 0
    /\ StoredResult.probability.v = 1000

\* C2: the stored result of a submission equals the reference heuristic on
\* the form's contents (absent scores count 0, the divisor stays 4), and the
\* four worked examples give the stated values.
C2_MatchesReference ==
    Stored =>
        /\ Gives(RefProbability, RefPrediction, RefRiskLevel)
        /\ Holds(875, 720, <<7, 8, 5, 9>>) => Gives(7675, "Pass", "low")
        /\ Holds(620, 480, <<3, 4, 6, 2>>) => Gives(5010, "Pass", "medium")
        /\ Holds(0, 0, <<0, 0, 0, 0>>) => Gives(1000, "Fail", "high")
        /\ Holds(1000, 1000, <<10, 10, 10, 10>>) => Gives(9500, "Pass", "low")

\* C2 witness: the result stored for (62.0, 48, {3,4,6,2}): 0.501, Pass, medium.
C2_Witness ==
    /\ Stored
    /\ Holds(620, 480, <<3, 4, 6, 2>>)
    /\ Gives(5010, "Pass", "medium")

\* C3: in every stored result prediction is "Pass" iff probability > 0.5, so
\* probability exactly 0.5 goes with "Fail".
C3_PassIffAboveHalf ==
    Stored => /\ StoredResult.prediction \in {"Pass", "Fail"}
              /\ StoredResult.prediction = "Pass" <=> StoredResult.probability.v > 5000

\* C3 witness: a stored result with probability exactly 0.5 and prediction "Fail".
C3_Witness ==
    /\ Stored
    /\ StoredResult.probability = [nan |-> FALSE, v |-> 5000]
    /\ StoredResult.prediction = "Fail"

\* C4: in every stored result riskLevel is "low" iff probability > 0.7,
\* "medium" iff 0.4 < probability <= 0.7, "high" otherwise.
C4_RiskLevelBands ==
    Stored =>
        LET p == StoredResult.probability.v
        IN  /\ StoredResult.riskLevel = "low" <=> p > 7000
            /\ StoredResult.riskLevel = "medium" <=> (4000 < p /\ p <= 7000)
            /\ StoredResult.riskLevel = "high" <=> p <= 4000

\* C4 witness: a stored result with probability exactly 0.70 and riskLevel "medium".
C4_Witness ==
    /\ Stored
    /\ StoredResult.probability = [nan |-> FALSE, v |-> 7000]
    /\ StoredResult.riskLevel = "medium"

\* C5: topFactors has exactly three entries, in the order Internal Marks,
\* Attendance, Engagement Index whatever their impacts, with impacts internal
\* marks, attendance and engagement * 10 (2.5 times the score sum), each in
\* [0, 100].
C5_TopFactors ==
    Stored =>
        LET f == StoredResult.topFactors
        IN  /\ Len(f) = 3
            /\ <<f[1].feature, f[2].feature, f[3].feature>>
                  = <<"Internal Marks", "Attendance", "Engagement Index">>
            /\ f[1].impact = [nan |-> FALSE, v |-> InternalTenths * 1000]
            /\ f[2].impact = [nan |-> FALSE, v |-> AttendanceTenths * 1000]
            /\ f[3].impact = [nan |-> FALSE, v |-> ScoreSum * 25000]
            /\ \A k \in 1..3 : f[k].impact.v >= 0 /\ f[k].impact.v <= 1000000

\* C5 witness: a stored result whose impacts are not in descending order
\* (Internal Marks below Attendance below Engagement Index at its maximum 100).
C5_Witness ==
    /\ Stored
    /\ StoredResult.topFactors[1].impact.v < StoredResult.topFactors[2].impact.v
    /\ StoredResult.topFactors[2].impact.v < StoredResult.topFactors[3].impact.v
    /\ StoredResult.topFactors[3].impact.v = 1000000

----------------------------------------------------------------------------
(* Properties of the views (checked under Spec) *)

RequiredFields == {"studentId", "semester", "attendancePct", "internalMarksAvg"}

RequiredMissing(formData) == \E name \in RequiredFields : formData[name] = <<>>

\* C6: while a required field is empty no submission gets through.  In every
\* step: (a) the view enters the loading state, or a scoring timer is started,
\* only from a form whose required fields are all filled; (b) the result of a
\* mounted view changes only in a step that consumes a pending timer, so never
\* in a submit attempt; (c) no pending scoring callback holds a form with a
\* required field empty; (d) an attempt the browser rejects, reporting invalid
\* fields, leaves the view and the timers as they were and emits no
\* notification; (e) what it reports includes every empty required field.
C6_NoSubmitWithoutRequired ==
    [][ /\ ( \/ Len(predictTimers') > Len(predictTimers)
             \/ /\ predictionForm # <<>> /\ predictionForm' # <<>>
                /\ ~predictionForm[1].loading /\ predictionForm'[1].loading )
           => /\ predictionForm # <<>>
              /\ ~RequiredMissing(predictionForm[1].formData)
        /\ ( /\ predictionForm # <<>> /\ predictionForm' # <<>>
             /\ predictionForm'[1].result # predictionForm[1].result )
           => Len(predictTimers') < Len(predictTimers)
        /\ \A k \in 1..Len(predictTimers') : ~RequiredMissing(predictTimers'[k].formData)
        /\ invalid' # {}
           => /\ predictionForm' = predictionForm
              /\ predictionForm # <<>>
              /\ predictTimers' = predictTimers
              /\ toast' = <<>>
              /\ \A name \in RequiredFields :
                    predictionForm[1].formData[name] = <<>> => name \in invalid'
      ]_vars

\* C6 witness: the browser has just rejected a submit attempt for an empty
\* required field, and the view is not loading, has no result and no timer.
C6_Witness ==
    /\ predictionForm # <<>>
    /\ \E name \in RequiredFields \cap invalid : predictionForm[1].formData[name] = <<>>
    /\ ~predictionForm[1].loading
    /\ predictionForm[1].result = null
    /\ predictTimers = <<>>

\* C7: Upload & Predict invoked with no file selected emits the one error
\* notification "Please select a file first" and changes nothing else: the
\* view is unchanged and no timer is started; and a view with no file
\* selected is never uploading.
C7_UploadWithoutFile ==
    [][ /\ UploadWithoutFile
              => /\ toast' = <<[type |-> "error",
                                message |-> <<"Please select a file first">>]>>
                 /\ bulkUpload' = bulkUpload
                 /\ uploadTimers' = uploadTimers
                 /\ download' = <<>>
        /\ (bulkUpload' # <<>> /\ bulkUpload'[1].file = <<>>) => ~bulkUpload'[1].uploading
      ]_vars

\* C7 witness: the error notification has just been emitted; no file is
\* selected, nothing is uploading and no upload timer is pending.
C7_Witness ==
    /\ bulkUpload # <<>>
    /\ toast = <<[type |-> "error", message |-> <<"Please select a file first">>]>>
    /\ bulkUpload[1] = [file |-> <<>>, uploading |-> FALSE]
    /\ uploadTimers = <<>>

\* C8: Download Template can be invoked in every state of the bulk upload
\* view, and whatever that state every download is the file
\* student_data_template.csv of type text/csv holding the header row and the
\* three example rows, accompanied by exactly one success notification.
C8_TemplateAlwaysTheSame ==
    /\ bulkUpload # <<>> => ENABLED downloadTemplate
    /\ download # <<>> =>
          /\ download =
                << [download |-> "student_data_template.csv",
                    type |-> "text/csv",
                    content |->
                       << "student_id,semester,attendance_pct,internal_marks_avg,cultural_activity_score,class_participation_score,sports_activity_score,curricular_activity_score",
                          "1DA23IS001,5,87.5,72,7,8,5,9",
                          "1DA23IS002,5,62.0,48,3,4,6,2",
                          "1DA23IS003,6,91.2,85,9,9,7,10" >>] >>
          /\ toast = <<[type |-> "success",
                        message |-> <<"Template downloaded successfully!">>]>>

\* C8 witness: the template has just been downloaded while an upload is in
\* flight with a file selected.
C8_Witness ==
    /\ download # <<>>
    /\ bulkUpload # <<>>
    /\ bulkUpload[1].uploading
    /\ bulkUpload[1].file # null

\* C9: whenever the analytics view is mounted its risk segments are Low 120,
\* Medium 45, High 18; they sum to the 183 of the Total Students Analyzed
\* card, and the High Risk segment equals the 18 of the High Risk Students
\* card.
C9_RiskSegmentsMatchCards ==
    analytics # <<>> =>
        LET r == analytics[1].riskDistribution
            c == analytics[1].cards
        IN  /\ Len(r) = 3
            /\ <<r[1].name, r[2].name, r[3].name>> = <<"Low Risk", "Medium Risk", "High Risk">>
            /\ <<r[1].value, r[2].value, r[3].value>> = <<120, 45, 18>>
            /\ r[1].value + r[2].value + r[3].value = 183
            /\ c.totalStudentsAnalyzed = r[1].value + r[2].value + r[3].value
            /\ c.highRiskStudents = r[3].value

\* C9 witness: the analytics view is mounted while a simulated upload started
\* earlier is still pending.
C9_Witness ==
    /\ analytics # <<>>
    /\ uploadTimers # <<>>

\* C10: leaving the Predict tab discards its view and entering it yields a
\* view with no result, not loading and eight empty fields; leaving the Bulk
\* Upload tab discards its view and entering it yields no file, not uploading.
C10_TabSwitchResets ==
    [][ /\ (activeTab = "predict" /\ activeTab' # "predict") => predictionForm' = <<>>
        /\ (activeTab # "predict" /\ activeTab' = "predict")
              => predictionForm' =
                    <<[loading |-> FALSE, result |-> <<>>,
                       formData |-> [name \in FieldNames |-> <<>>]]>>
        /\ (activeTab = "bulk" /\ activeTab' # "bulk") => bulkUpload' = <<>>
        /\ (activeTab # "bulk" /\ activeTab' = "bulk")
              => bulkUpload' = <<[file |-> <<>>, uploading |-> FALSE]>>
      ]_vars

\* C10 witness: back on the Predict tab with a fresh view while the timer of
\* a submission made before leaving is still pending.
C10_Witness ==
    /\ activeTab = "predict"
    /\ predictionForm =
          <<[loading |-> FALSE, result |-> <<>>,
             formData |-> [name \in FieldNames |-> <<>>]]>>
    /\ predictTimers # <<>>
    /\ ~predictTimers[1].alive

----------------------------------------------------------------------------
(* Properties of the simulated calls *)

\* The timers of kind timers that belong to the mounted instance.
AliveTimers(timers) == {k \in 1..Len(timers) : timers[k].alive}

Loading == predictionForm # <<>> /\ predictionForm[1].loading

PredictionCompleted == [type |-> "success", message |-> <<"Prediction completed successfully!">>]

\* C11: (a) a step that puts a mounted view in the loading state starts one
\* 1500 ms timer holding the form; (b) the view is loading exactly while one
\* timer of its own is pending, so nothing ends the loading but that timer and
\* nothing cancels it; (c) the step that ends a mounted view's loading is the
\* firing of its timer, and in that one step the result computed from the
\* timer's form is stored and exactly one "Prediction completed successfully!"
\* notification is emitted, so loading never ends with that result missing;
\* (d) a loading view eventually stops loading or is unmounted.
C11_SubmissionCompletes ==
    /\ [][ /\ ( /\ predictionForm # <<>> /\ predictionForm' # <<>>
                /\ ~predictionForm[1].loading /\ predictionForm'[1].loading )
              => /\ predictTimers' =
                       Append(predictTimers,
                              [alive |-> TRUE, delay |-> 1500,
                               formData |-> predictionForm[1].formData])
                 /\ toast' = <<>>
           /\ predictionForm' # <<>>
              => Cardinality(AliveTimers(predictTimers'))
                    = IF predictionForm'[1].loading THEN 1 ELSE 0
           /\ predictionForm' = <<>> => AliveTimers(predictTimers') = {}
           /\ ( /\ predictionForm # <<>> /\ predictionForm' # <<>>
                /\ predictionForm[1].loading /\ ~predictionForm'[1].loading )
              => /\ predictTimers # <<>>
                 /\ Head(predictTimers).alive
                 /\ predictTimers' = Tail(predictTimers)
                 /\ predictionForm'[1].result
                       = <<PredictionResult(Head(predictTimers).formData)>>
                 /\ toast' = <<PredictionCompleted>>
         ]_vars
    /\ Loading ~> ~Loading

\* C11 witness: a submission has just completed: the view is mounted, not
\* loading, holds a result, and the one success notification was emitted.
C11_Witness ==
    /\ predictionForm # <<>>
    /\ ~predictionForm[1].loading
    /\ predictionForm[1].result # null
    /\ toast = <<PredictionCompleted>>
    /\ AliveTimers(predictTimers) = {}

\* The state of a mounted bulk-upload view with an upload in flight.
Uploading == bulkUpload # <<>> /\ bulkUpload[1].uploading

Processed(file) == [type |-> "success", message |-> <<"Successfully processed ", file.name>>]

\* C12: an upload invoked with a file selected sets uploading and starts one
\* timer of 2000 ms that holds the file selected at that moment; uploading
\* ends only by that timer firing, which in the same step emits the one
\* success notification naming the held file, sets uploading = false and
\* clears the selection; and every upload in flight does end.
C12_UploadCompletes ==
    /\ [][ /\ ( /\ bulkUpload # <<>> /\ bulkUpload' # <<>>
                /\ ~bulkUpload[1].uploading /\ bulkUpload'[1].uploading )
              => /\ bulkUpload[1].file # null
                 /\ uploadTimers' = Append(uploadTimers,
                              [alive |-> TRUE, delay |-> 2000,
                               file |-> bulkUpload[1].file[1]])
           /\ ( /\ bulkUpload # <<>> /\ bulkUpload' # <<>>
                /\ bulkUpload[1].uploading /\ ~bulkUpload'[1].uploading )
              => /\ uploadTimers # <<>>
                 /\ Head(uploadTimers).alive
                 /\ uploadTimers' = Tail(uploadTimers)
                 /\ toast' = <<Processed(Head(uploadTimers).file)>>
                 /\ bulkUpload' = <<[file |-> null, uploading |-> FALSE]>>
         ]_vars
    /\ Uploading ~> ~Uploading

\* C12 witness: an upload has just completed in the mounted view.
C12_Witness ==
    /\ bulkUpload = <<[file |-> null, uploading |-> FALSE]>>
    /\ \E f \in Files : toast = <<Processed(f)>>
    /\ AliveTimers(uploadTimers) = {}

\* C13: in every state where a submission is in flight in the mounted
\* prediction view (loading = true) no PredictionResult is present.
C13_NoResultWhileLoading == Loading => predictionForm[1].result = null

\* C13, the diverging state: a second submission is in flight and the result
\* of the first is still stored, hence still displayed.
C13_StaleResultWhileLoading == Loading /\ predictionForm[1].result # null

\* C14: in a mounted bulk-upload view a click on Upload & Predict is possible
\* exactly when a file is selected and no upload is in progress (and the
\* timer queue has room); the view has one pending timer of its own while
\* uploading and none otherwise; and uploading = true implies a file is
\* selected.  An unmounted view leaves no timer of a mounted one behind.
C14_UploadEnabledWhenIdle ==
    IF bulkUpload = <<>>
    THEN AliveTimers(uploadTimers) = {}
    ELSE /\ (ENABLED UploadClick)
               <=> /\ bulkUpload[1].file # null
                   /\ ~bulkUpload[1].uploading
                   /\ Len(uploadTimers) < MaxTimers
         /\ Cardinality(AliveTimers(uploadTimers))
               = IF bulkUpload[1].uploading THEN 1 ELSE 0
         /\ bulkUpload[1].uploading => bulkUpload[1].file # null

\* C14 witness: an upload is in flight with a file selected and room in the
\* queue, so it is the upload in progress that disables the button.
C14_Witness ==
    /\ Uploading
    /\ bulkUpload[1].file # null
    /\ Len(uploadTimers) < MaxTimers
    /\ Cardinality(AliveTimers(uploadTimers)) = 1
    /\ ~ENABLED UploadClick

\* The tab whose body a view is.
Mounted ==
    [overview  |-> overview # <<>>,
     predict   |-> predictionForm # <<>>,
     bulk      |-> bulkUpload # <<>>,
     analytics |-> analytics # <<>>]

\* C15: the active tab starts as "overview" and is always one of the four
\* tab identifiers; in every state exactly one tab body is mounted, the one
\* of the active tab, and no view has more than one instance.
C15_OneTabBodyMounted ==
    /\ activeTab = "overview"
    /\ [](/\ activeTab \in Tabs
          /\ \A tab \in Tabs : Mounted[tab] <=> tab = activeTab
          /\ Cardinality({tab \in Tabs : Mounted[tab]}) = 1
          /\ Len(overview) <= 1 /\ Len(predictionForm) <= 1
          /\ Len(bulkUpload) <= 1 /\ Len(analytics) <= 1)

\* C15 witness: after tab selections that visited the prediction view, the
\* analytics body is the only one mounted.
C15_Witness ==
    /\ activeTab = "analytics"
    /\ analytics # <<>>
    /\ predictionForm = <<>> /\ bulkUpload = <<>> /\ overview = <<>>
    /\ predictTimers # <<>>

\* The field values held by the pending submissions, oldest first.
Captured(timers) == [k \in 1..Len(timers) |-> timers[k].formData]

\* C16: the fields are read once, when the submission is accepted: the
\* values are held by the submission's timer from then on, whatever is typed
\* into the form meanwhile; the result stored on completion is computed from
\* the held values; and neither accepting nor completing a submission changes
\* any of the eight fields.
C16_FieldsReadAtSubmission ==
    [][ /\ ( /\ predictionForm # <<>> /\ predictionForm' # <<>>
             /\ ~predictionForm[1].loading /\ predictionForm'[1].loading )
           => /\ Captured(predictTimers')
                    = Append(Captured(predictTimers), predictionForm[1].formData)
              /\ predictionForm'[1].formData = predictionForm[1].formData
        /\ \/ Captured(predictTimers') = Captured(predictTimers)
           \/ /\ predictTimers # <<>>
              /\ Captured(predictTimers') = Tail(Captured(predictTimers))
           \/ /\ Len(predictTimers') = Len(predictTimers) + 1
              /\ SubSeq(Captured(predictTimers'), 1, Len(predictTimers))
                    = Captured(predictTimers)
        /\ ( /\ predictionForm # <<>> /\ predictionForm' # <<>>
             /\ predictionForm[1].loading /\ ~predictionForm'[1].loading )
           => /\ predictionForm'[1].result
                    = <<PredictionResult(Head(predictTimers).formData)>>
              /\ predictionForm'[1].formData = predictionForm[1].formData
      ]_vars

\* C16 witness: a submission has just completed in a form that was edited
\* while it was in flight: the stored result is not the one of the fields as
\* they are now.
C16_Witness ==
    /\ predictionForm # <<>>
    /\ ~predictionForm[1].loading
    /\ toast = <<PredictionCompleted>>
    /\ predictionForm[1].result # null
    /\ predictionForm[1].result # <<PredictionResult(predictionForm[1].formData)>>

\* The views as the operator sees them.
Views == <<activeTab, overview, predictionForm, bulkUpload, analytics>>

\* C17: a pending timer is never cancelled: it leaves its queue only by
\* firing, which emits its notification, and every pending timer does fire.
\* The timer of an instance that has been unmounted changes no view when it
\* fires: a prediction view mounted since then stays as it is (not loading,
\* no result, unless it has an operation of its own), and a bulk-upload view
\* mounted since then keeps its uploading flag and its selected file.
C17_OrphanedTimersFireHarmlessly ==
    /\ [][ /\ predictTimers' # predictTimers /\ Len(predictTimers') <= Len(predictTimers)
              => \/ /\ predictTimers' = Orphan(predictTimers)
                    /\ predictionForm' = <<>>
                 \/ /\ predictTimers' = Tail(predictTimers)
                    /\ toast' = <<PredictionCompleted>>
                    /\ ~Head(predictTimers).alive => Views' = Views
           /\ uploadTimers' # uploadTimers /\ Len(uploadTimers') <= Len(uploadTimers)
              => \/ /\ uploadTimers' = Orphan(uploadTimers)
                    /\ bulkUpload' = <<>>
                 \/ /\ uploadTimers' = Tail(uploadTimers)
                    /\ toast' = <<Processed(Head(uploadTimers).file)>>
                    /\ ~Head(uploadTimers).alive => Views' = Views
         ]_vars
    /\ (predictTimers # <<>> /\ ~Head(predictTimers).alive)
          ~> (toast = <<PredictionCompleted>>)
    /\ (uploadTimers # <<>> /\ ~Head(uploadTimers).alive)
          ~> (\E f \in Files : toast = <<Processed(f)>>)

\* C17 witness: the operator left the Predict tab during a submission and
\* came back; the old timer has just fired and the new instance is still
\* not loading and without a result.
C17_Witness ==
    /\ predictionForm # <<>>
    /\ ~predictionForm[1].loading
    /\ predictionForm[1].result = null
    /\ toast = <<PredictionCompleted>>

\* The students counted by the attendance brackets, pass and fail together.
RECURSIVE BracketTotal(_)
BracketTotal(rows) ==
    IF rows = <<>> THEN 0
    ELSE Head(rows).pass + Head(rows).fail + BracketTotal(Tail(rows))

\* C18: the pass and fail counts of the three attendance brackets together
\* total 183, the population of the risk-distribution segments and of the
\* Total Students Analyzed card.
C18_BracketsCountTheCohort ==
    analytics # <<>> =>
        LET a == analytics[1].attendanceVsPerformance
            r == analytics[1].riskDistribution
        IN  /\ <<a[1].attendance, a[2].attendance, a[3].attendance>>
                  = <<"0-60%", "60-80%", "80-100%">>
            /\ BracketTotal(a) = 183
            /\ BracketTotal(a) = r[1].value + r[2].value + r[3].value
            /\ BracketTotal(a) = analytics[1].cards.totalStudentsAnalyzed

\* C18, the diverging state: the mounted analytics view shows brackets that
\* count 210 students beside a card and risk segments that count 183.
C18_BracketsCount210 ==
    /\ analytics # <<>>
    /\ BracketTotal(analytics[1].attendanceVsPerformance) = 210
    /\ analytics[1].cards.totalStudentsAnalyzed = 183

\* The file held by the pending upload of the mounted bulk-upload view.
UploadedFile == uploadTimers[CHOOSE k \in AliveTimers(uploadTimers) : TRUE].file

\* C19: while an upload is in flight the file picker still takes a file: the
\* chosen file replaces the selection and leaves the upload (its timer and
\* the file it holds) as it is; when the timer fires, the notification names
\* the file the upload was started with and the selection is cleared,
\* whichever file it holds, without a timer ever having been started for it.
C19_FilePickedDuringUpload ==
    [][ /\ ( /\ Uploading /\ bulkUpload' # <<>> /\ bulkUpload'[1].uploading
             /\ bulkUpload'[1].file # bulkUpload[1].file )
           => /\ bulkUpload'[1].file # null
              /\ uploadTimers' = uploadTimers
              /\ toast' = <<[type |-> "success",
                             message |-> <<"File selected: ", bulkUpload'[1].file[1].name>>]>>
        /\ ( /\ Uploading /\ bulkUpload' # <<>> /\ ~bulkUpload'[1].uploading )
           => /\ toast' = <<Processed(UploadedFile)>>
              /\ bulkUpload'[1].file = null
              /\ AliveTimers(uploadTimers') = {}
      ]_vars

\* C19 witness: during an upload started with one file the other file has
\* been picked: the selection differs from the file the pending timer holds,
\* and that timer is the only one the view has.
C19_Witness ==
    /\ Uploading
    /\ AliveTimers(uploadTimers) # {}
    /\ bulkUpload[1].file # null
    /\ bulkUpload[1].file[1] # UploadedFile

\* C20: in every stored result riskLevel "high" goes with prediction "Fail"
\* and riskLevel "low" with prediction "Pass", so that a riskLevel met with
\* both predictions can only be "medium".
C20_ClassificationsConsistent ==
    Stored =>
        /\ StoredResult.riskLevel = "high" => StoredResult.prediction = "Fail"
        /\ StoredResult.riskLevel = "low" => StoredResult.prediction = "Pass"
        /\ StoredResult.riskLevel \in {"low", "medium", "high"}
        /\ StoredResult.prediction \in {"Pass", "Fail"}

\* C20 witness: a stored result with riskLevel "medium" and prediction "Pass".
C20_Witness ==
    /\ Stored
    /\ StoredResult.riskLevel = "medium"
    /\ StoredResult.prediction = "Pass"

====
